---- MODULE Spec2Model ----
(***************************************************************************)
(* The KMGI Direct Publisher -> Roku Search Feed converters.               *)
(*                                                                         *)
(* Two scripts are modelled: convert_to_search_feed.py (variant "v1") and  *)
(* convert_to_search_feed_v2.py (variant "v2").  Each has a convert_item   *)
(* function and a batch driver main() that walks the movies list and then  *)
(* the shortFormVideos list of the input feed.                             *)
(*                                                                         *)
(* Python strings are TLA+ strings (taken apart with Len, SubSeq and \o);  *)
(* lists are sequences; dicts are records whose DOMAIN is the set of keys  *)
(* present; integers that may also be None are tagged values (PyInt, None).  *)
(***************************************************************************)
EXTENDS Integers, Sequences, FiniteSets, TLC

VARIABLES
  variant,      \* which script runs: "v1" or "v2"
  movies,       \* dp_feed["movies"]
  shortforms,   \* dp_feed["shortFormVideos"]
  pc,           \* position of main(), or of the truncate call
  idx,          \* position of the running for loop (1-based)
  assets,       \* the assets list of main()
  errors,       \* the errors counter of main() (v1 only; stays 0 in v2)
  search_feed,  \* the output document, once built
  text,         \* truncate(text, max_len): its arguments ...
  max_len,
  result        \* ... and its return value

vars ==
  <<variant, movies, shortforms, pc, idx, assets, errors, search_feed,
    text, max_len, result>>

(***************************************************************************)
(* Bounds of the model.                                                    *)
(***************************************************************************)
MaxMovies == 2
MaxShorts == 2
MaxTextLen == 5
MaxLimit == 6

(***************************************************************************)
(* Python values.                                                          *)
(***************************************************************************)
None == [type |-> "NoneType"]

PyInt(n) == [type |-> "int", val |-> n]

EmptyDict == [k \in {} |-> 0]

\* d.get(key, default)
Get(d, key, default) == IF key \in DOMAIN d THEN d[key] ELSE default

\* bool(x) for a value that is an int or None
TruthyInt(x) == x.type = "int" /\ x.val # 0

Min(a, b) == IF a <= b THEN a ELSE b

Max(a, b) == IF a >= b THEN a ELSE b

\* s[:n], Python's slice: a negative n counts from the end
Slice(s, n) ==
  IF n >= 0 THEN SubSeq(s, 1, Min(n, Len(s)))
            ELSE SubSeq(s, 1, Max(Len(s) + n, 0))

\* s[i:] for a 0-based i >= 0
SliceFrom(s, i) == SubSeq(s, i + 1, Len(s))

CharAt(s, i) == SubSeq(s, i, i)

UpperCase == "ABCDEFGHIJKLMNOPQRSTUVWXYZ"

LowerCase == "abcdefghijklmnopqrstuvwxyz"

\* the 1-based position of character c in alphabet, 0 when it is not there
IndexIn(c, alphabet) ==
  LET hits == {i \in 1..Len(alphabet) : CharAt(alphabet, i) = c}
  IN  IF hits = {} THEN 0 ELSE CHOOSE i \in hits : TRUE

LowerChar(c) ==
  LET i == IndexIn(c, UpperCase) IN IF i = 0 THEN c ELSE CharAt(LowerCase, i)

UpperChar(c) ==
  LET i == IndexIn(c, LowerCase) IN IF i = 0 THEN c ELSE CharAt(UpperCase, i)

RECURSIVE Lower(_)
\* str.lower() (ASCII letters), character by character; the string is halved
\* so that the evaluation stays shallow
Lower(s) ==
  IF Len(s) <= 1 THEN LowerChar(s)
  ELSE Lower(Slice(s, Len(s) \div 2)) \o Lower(SliceFrom(s, Len(s) \div 2))

RECURSIVE Upper(_)
\* str.upper() (ASCII letters), character by character
Upper(s) ==
  IF Len(s) <= 1 THEN UpperChar(s)
  ELSE Upper(Slice(s, Len(s) \div 2)) \o Upper(SliceFrom(s, Len(s) \div 2))

\* s.startswith(p)
StartsWith(s, p) == Len(p) <= Len(s) /\ SubSeq(s, 1, Len(p)) = p

\* the least element of a non-empty set of integers
Least(S) == CHOOSE i \in S : \A j \in S : i <= j

\* the greatest element of a non-empty set of integers
Greatest(S) == CHOOSE i \in S : \A j \in S : i >= j

\* s.find(sub) + 1: the 1-based position of the first occurrence, 0 if none
Find(s, sub) ==
  LET hits == {i \in 1..(Len(s) - Len(sub) + 1) : StartsWith(SliceFrom(s, i - 1), sub)}
  IN  IF hits = {} THEN 0 ELSE Least(hits)

\* sub in s
Contains(s, sub) == Find(s, sub) # 0

RECURSIVE SplitLast(_, _)
\* s.split(sep)[-1]: split cuts at the occurrences of sep found left to
\* right without overlap; the last piece is what follows the last cut
SplitLast(s, sep) ==
  LET i == Find(s, sep)
  IN  IF i = 0 THEN s ELSE SplitLast(SliceFrom(s, i - 1 + Len(sep)), sep)

\* the positions of s whose character is not in chars
KeptPositions(s, chars) == {i \in 1..Len(s) : CharAt(s, i) \notin chars}

\* s.lstrip(chars)
LStrip(s, chars) ==
  LET kept == KeptPositions(s, chars)
  IN  IF kept = {} THEN "" ELSE SubSeq(s, Least(kept), Len(s))

\* s.rstrip(chars)
RStrip(s, chars) ==
  LET kept == KeptPositions(s, chars)
  IN  IF kept = {} THEN "" ELSE SubSeq(s, 1, Greatest(kept))

\* s.strip(chars): removes leading and trailing characters of the set chars
StripChars(s, chars) == RStrip(LStrip(s, chars), chars)

\* the characters str.strip() removes (the ASCII ones TLA+ can write)
Whitespace == {" ", "\t", "\n", "\r", "\f"}

\* s.strip()
Strip(s) == StripChars(s, Whitespace)

RECURSIVE Join(_, _)
\* sep.join(seq)
Join(sep, seq) ==
  IF seq = <<>> THEN ""
  ELSE IF Len(seq) = 1 THEN seq[1]
  ELSE seq[1] \o sep \o Join(sep, Tail(seq))

RECURSIVE Repeat(_, _)
\* s * n
Repeat(s, n) ==
  IF n <= 0 THEN ""
  ELSE IF n = 1 THEN s
  ELSE Repeat(s, n \div 2) \o Repeat(s, n - (n \div 2))

(***************************************************************************)
(* Exceptions: a function that raises returns the exception as its value.  *)
(***************************************************************************)
KeyError(key) == [exception |-> "KeyError", key |-> key]

IsException(r) == "exception" \in DOMAIN r

(***************************************************************************)
(* convert_to_search_feed.py (v1)                                          *)
(***************************************************************************)
VALID_GENRES ==
  {
    "action", "action sports", "adventure", "aerobics", "agriculture", "animals",
    "animated", "anime", "anthology", "archery", "arm wrestling", "art", "arts/crafts",
    "artistic gymnastics", "artistic swimming", "athletics", "auction", "auto",
    "auto racing", "aviation", "awards", "badminton", "ballet", "baseball", "basketball",
    "3x3 basketball", "beach soccer", "beach volleyball", "biathlon", "bicycle",
    "bicycle racing", "billiards", "biography", "blackjack", "bmx racing", "boat",
    "boat racing", "bobsled", "bodybuilding", "bowling", "boxing", "bullfighting",
    "bus./financial", "canoe", "card games", "ceremony", "cheerleading", "children",
    "children-music", "children-special", "children-talk", "collectibles", "comedy",
    "comedy drama", "community", "computers", "canoe/kayak", "consumer", "cooking",
    "cricket", "crime", "crime drama", "curling", "cycling", "dance", "dark comedy",
    "darts", "debate", "diving", "docudrama", "documentary", "dog racing", "dog show",
    "dog sled", "drag racing", "drama", "educational", "entertainment", "environment",
    "equestrian", "erotic", "event", "exercise", "fantasy", "faith", "fashion", "fencing",
    "field hockey", "figure skating", "fishing", "football", "food", "fundraiser",
    "gaelic football", "game show", "gaming", "gay/lesbian", "golf", "gymnastics",
    "handball", "health", "historical drama", "history", "hockey", "holiday",
    "holiday music", "holiday music special", "holiday special", "holiday-children",
    "holiday-children special", "home improvement", "horror", "horse", "house/garden",
    "how-to", "hunting", "hurling", "hydroplane racing", "indoor soccer", "interview",
    "intl soccer", "judo", "karate", "kayaking", "lacrosse", "law", "live", "luge",
    "martial arts", "medical", "military", "miniseries", "mixed martial arts",
    "modern pentathlon", "motorcycle", "motorcycle racing", "motorsports",
    "mountain biking", "music", "music special", "music talk", "musical",
    "musical comedy", "mystery", "nature", "news", "newsmagazine", "olympics", "opera",
    "outdoors", "parade", "paranormal", "parenting", "performing arts", "playoff sports",
    "poker", "politics", "polo", "pool", "pro wrestling", "public affairs", "racquet",
    "reality", "religious", "ringuette", "road cycling", "rodeo", "roller derby",
    "romance", "romantic comedy", "rowing", "rugby", "running", "rhythmic gymnastics",
    "sailing", "science", "science fiction", "self improvement", "shooting", "shopping",
    "sitcom", "skateboarding", "skating", "skeleton", "skiing", "snooker", "snowboarding",
    "snowmobile", "soap", "soap special", "soap talk", "soccer", "softball", "special",
    "speed skating", "sport climbing", "sports", "sports talk", "squash", "standup",
    "sumo wrestling", "surfing", "suspense", "swimming", "table tennis", "taekwondo",
    "talk", "technology", "tennis", "theater", "thriller", "track/field", "track cycling",
    "travel", "trampoline", "triathlon", "variety", "volleyball", "war", "water polo",
    "water skiing", "watersports", "weather", "weightlifting", "western", "wrestling",
    "yacht racing"
  }

\* truncate(text, max_len)
truncate(t, n) ==
  IF t = "" THEN t
  ELSE IF Len(t) <= n THEN t
  ELSE Slice(t, n - 3) \o "..."

RECURSIVE ValidOnly(_)
\* [g for g in genres if g.lower() in VALID_GENRES]
ValidOnly(genres) ==
  IF genres = <<>> THEN <<>>
  ELSE (IF Lower(Head(genres)) \in VALID_GENRES THEN <<Head(genres)>> ELSE <<>>)
       \o ValidOnly(Tail(genres))

\* [g.lower() for g in valid]
LowerAll(valid) == [i \in 1..Len(valid) |-> Lower(valid[i])]

\* validate_genres with the final lowercasing forgotten
validate_genres_unlowered(genres) ==
  LET valid == ValidOnly(genres)
  IN  IF valid = <<>> THEN <<"special">> ELSE valid

\* validate_genres(genres)
validate_genres(genres) ==
  LET valid == ValidOnly(genres)
  IN  IF valid = <<>> THEN <<"special">> ELSE LowerAll(valid)

\* source_map.get(ratingSource, "USA_PR")
source_map(ratingSource) ==
  CASE ratingSource = "USA_TV" -> "USA_PR"
    [] ratingSource = "MPAA"   -> "MPAA"
    [] ratingSource = "USA_PR" -> "USA_PR"
    [] OTHER                   -> "USA_PR"

\* the advisoryRatings of the asset
AdvisoryRatingsV1(item) ==
  LET rating == Get(item, "rating", EmptyDict)
  IN  IF DOMAIN rating # {}
        THEN <<[source |-> source_map(Get(rating, "ratingSource", "USA_TV")),
                value  |-> Get(rating, "rating", "TV-G")]>>
        ELSE <<[source |-> "USA_PR", value |-> "TV-G"]>>

\* the images of the asset
ImagesV1(item) ==
  IF Get(item, "thumbnail", "") # ""
    THEN <<[type |-> "main", url |-> item["thumbnail"]]>>
    ELSE <<>>

\* quality_map.get(quality, "hd")
quality_map(quality) ==
  CASE quality = "HD"  -> "hd"
    [] quality = "SD"  -> "sd"
    [] quality = "UHD" -> "uhd"
    [] quality = "FHD" -> "fhd"
    [] OTHER           -> "hd"

\* the play option built from one video entry; item["id"] is present here
PlayOptionV1(item, vid) ==
  LET url == Get(vid, "url", "")
  IN  [license |-> "free",
       quality |-> quality_map(Upper(Get(vid, "quality", "HD"))),
       playId  |-> IF Contains(url, "/play/") THEN SplitLast(url, "/play/")
                                              ELSE item["id"]]

\* PlayOptionsV1 without the "ensure at least one playOption" step
PlayOptionsV1_unensured(item) ==
  LET content == Get(item, "content", EmptyDict)
      videos  == Get(content, "videos", <<>>)
  IN  [i \in 1..Len(videos) |-> PlayOptionV1(item, videos[i])]

\* content.playOptions of the asset
PlayOptionsV1(item) ==
  LET content == Get(item, "content", EmptyDict)
      videos  == Get(content, "videos", <<>>)
      options == [i \in 1..Len(videos) |-> PlayOptionV1(item, videos[i])]
  IN  IF options = <<>>
        THEN <<[license |-> "free", quality |-> "hd", playId |-> item["id"]]>>
        ELSE options

\* durationInSeconds of the asset
DurationV1(item) ==
  LET content == Get(item, "content", EmptyDict)
  IN  IF TruthyInt(Get(content, "duration", None))
        THEN content["duration"]
        ELSE PyInt(60)

\* one cleaned tag: t.strip('"').strip()
CleanTagV1(t) == Strip(StripChars(t, {"\""}))

RECURSIVE CleanTagsV1(_)
\* [t.strip('"').strip()[:20] for t in tags if t.strip('"').strip()]
CleanTagsV1(tags) ==
  IF tags = <<>> THEN <<>>
  ELSE (IF CleanTagV1(Head(tags)) # ""
          THEN <<Slice(CleanTagV1(Head(tags)), 20)>> ELSE <<>>)
       \o CleanTagsV1(Tail(tags))

\* convert_item(item, item_type) of v1
convert_item_v1(item, item_type) ==
  LET title      == truncate(Get(item, "title", "Untitled"), 200)
      short_desc == truncate(Get(item, "shortDescription", title), 200)
      long_desc  == truncate(Get(item, "longDescription", ""), 500)
      clean_tags == CleanTagsV1(Get(item, "tags", <<>>))
  IN  IF "id" \notin DOMAIN item THEN KeyError("id")
      ELSE
        [id                |-> Slice(item["id"], 50),
         type              |-> item_type,
         titles            |-> <<[value |-> title, languages |-> <<"en">>]>>,
         shortDescriptions |-> <<[value |-> short_desc, languages |-> <<"en">>]>>,
         releaseDate       |-> Get(item, "releaseDate", "2025-01-01"),
         genres            |-> validate_genres(Get(item, "genres", <<"special">>)),
         advisoryRatings   |-> AdvisoryRatingsV1(item),
         images            |-> ImagesV1(item),
         content           |-> [playOptions |-> PlayOptionsV1(item)],
         durationInSeconds |-> DurationV1(item)]
        @@ (IF long_desc # ""
              THEN [longDescriptions |->
                      <<[value |-> long_desc, languages |-> <<"en">>]>>]
              ELSE EmptyDict)
        @@ (IF clean_tags # <<>> THEN [tags |-> clean_tags] ELSE EmptyDict)

(***************************************************************************)
(* convert_to_search_feed_v2.py (v2)                                       *)
(***************************************************************************)
VALID_GENRES_V2 ==
  {
    "action", "action sports", "adventure", "aerobics", "agriculture", "animals",
    "animated", "anime", "anthology", "archery", "arm wrestling", "art", "arts/crafts",
    "artistic gymnastics", "artistic swimming", "athletics", "auction", "auto",
    "auto racing", "aviation", "awards", "badminton", "ballet", "baseball", "basketball",
    "3x3 basketball", "beach soccer", "beach volleyball", "biathlon", "bicycle",
    "bicycle racing", "billiards", "biography", "blackjack", "bmx racing", "boat",
    "boat racing", "bobsled", "bodybuilding", "bowling", "boxing", "bullfighting",
    "bus./financial", "canoe", "card games", "ceremony", "cheerleading", "children",
    "children-music", "children-special", "children-talk", "collectibles", "comedy",
    "comedy drama", "community", "computers", "canoe/kayak", "consumer", "cooking",
    "cricket", "crime", "crime drama", "curling", "cycling", "dance", "dark comedy",
    "darts", "debate", "diving", "docudrama", "documentary", "dog racing", "dog show",
    "dog sled", "drag racing", "drama", "educational", "entertainment", "environment",
    "equestrian", "erotic", "event", "exercise", "fantasy", "faith", "fashion", "fencing",
    "field hockey", "figure skating", "fishing", "football", "food", "fundraiser",
    "gaelic football", "game show", "gaming", "gay/lesbian", "golf", "gymnastics",
    "handball", "health", "historical drama", "history", "hockey", "holiday",
    "holiday music", "holiday music special", "holiday special", "holiday-children",
    "holiday-children special", "home improvement", "horror", "horse", "house/garden",
    "how-to", "hunting", "hurling", "hydroplane racing", "indoor soccer", "interview",
    "intl soccer", "judo", "karate", "kayaking", "lacrosse", "law", "live", "luge",
    "martial arts", "medical", "military", "miniseries", "mixed martial arts",
    "modern pentathlon", "motorcycle", "motorcycle racing", "motorsports",
    "mountain biking", "music", "music special", "music talk", "musical",
    "musical comedy", "mystery", "nature", "news", "newsmagazine", "olympics", "opera",
    "outdoors", "parade", "paranormal", "parenting", "performing arts", "playoff sports",
    "poker", "politics", "polo", "pool", "pro wrestling", "public affairs", "racquet",
    "reality", "religious", "ringuette", "road cycling", "rodeo", "roller derby",
    "romance", "romantic comedy", "rowing", "rugby", "running", "rhythmic gymnastics",
    "sailing", "science", "science fiction", "self improvement", "shooting", "shopping",
    "sitcom", "skateboarding", "skating", "skeleton", "skiing", "snooker", "snowboarding",
    "snowmobile", "soap", "soap special", "soap talk", "soccer", "softball", "special",
    "speed skating", "sport climbing", "sports", "sports talk", "squash", "standup",
    "sumo wrestling", "surfing", "suspense", "swimming", "table tennis", "taekwondo",
    "talk", "technology", "tennis", "theater", "thriller", "track/field", "track cycling",
    "travel", "trampoline", "triathlon", "variety", "volleyball", "war", "water polo",
    "water skiing", "watersports", "weather", "weightlifting", "western", "wrestling",
    "yacht racing"
  }

\* the keyword buckets of classify_content, in the order they are tried
ChurchWords ==
  {"church", "sermon", "bible", "pastor", "worship", "prayer", "gospel",
   "praise", "ministry", "missionary", "baptist", "pastoral", "deacon",
   "sunday", "galilee", "scripture", "christmas eve", "easter", "revival"}

MusicWords == {"music", "song", "concert", "singing", "choir", "hymn"}

HolidayWords == {"christmas", "holiday", "thanksgiving", "easter"}

TalkWords == {"news", "interview", "talk", "discussion"}

CommunityWords == {"community", "neighborhood", "local", "event"}

EducationalWords == {"education", "learn", "class", "lesson", "tutorial"}

\* any(w in text for w in words)
AnyIn(words, txt) == \E w \in words : Contains(txt, w)

\* classify_content(title, description, tags, duration_secs)
classify_content(title, description, tags, duration_secs) ==
  LET txt == Lower(title \o " " \o description \o " " \o Join(" ", tags))
  IN  IF AnyIn(ChurchWords, txt) THEN <<"faith">>
      ELSE IF AnyIn(MusicWords, txt) THEN <<"music">>
      ELSE IF AnyIn(HolidayWords, txt) THEN <<"holiday">>
      ELSE IF AnyIn(TalkWords, txt) THEN <<"talk">>
      ELSE IF AnyIn(CommunityWords, txt) THEN <<"community">>
      ELSE IF AnyIn(EducationalWords, txt) THEN <<"educational">>
      ELSE <<"faith">>

Digits == {"0", "1", "2", "3", "4", "5", "6", "7", "8", "9"}

\* the longest prefix of s made of digits: what (\d+) matches at the start of s
LeadingDigits(s) ==
  LET others == KeptPositions(s, Digits)
  IN  IF others = {} THEN s ELSE SubSeq(s, 1, Least(others) - 1)

RECURSIVE SearchPlayDigits(_)
\* re.search(r'/play/(\d+)', url): group 1 of the leftmost match, "" for no match
SearchPlayDigits(url) ==
  LET i == Find(url, "/play/")
  IN  IF i = 0 THEN ""
      ELSE LET d == LeadingDigits(SliceFrom(url, i - 1 + Len("/play/")))
           IN  IF d # "" THEN d ELSE SearchPlayDigits(SliceFrom(url, i))

\* play_id; item["id"] is present here
PlayIdV2(item) ==
  IF /\ "content" \in DOMAIN item
     /\ "videos" \in DOMAIN item["content"]
     /\ item["content"]["videos"] # <<>>
    THEN LET video_url == Get(item["content"]["videos"][1], "url", "")
             group1    == SearchPlayDigits(video_url)
         IN  IF group1 # "" THEN group1 ELSE item["id"]
    ELSE item["id"]

\* duration
DurationV2(item) ==
  LET duration == Get(Get(item, "content", EmptyDict), "duration", PyInt(0))
  IN  IF duration = None \/ duration = PyInt(0) THEN PyInt(1) ELSE duration

\* asset_type
AssetTypeV2(item_type, duration) ==
  IF item_type = "shortform" THEN "shortform"
  ELSE IF duration.val > 900 THEN "movie" ELSE "shortform"

\* x or y, for strings
OrStr(x, y) == IF x # "" THEN x ELSE y

RECURSIVE TagsV2(_)
\* [t[:20] for t in tags if t and len(t.strip()) > 0]
TagsV2(tags) ==
  IF tags = <<>> THEN <<>>
  ELSE (IF Head(tags) # "" /\ Len(Strip(Head(tags))) > 0
          THEN <<Slice(Head(tags), 20)>> ELSE <<>>)
       \o TagsV2(Tail(tags))

\* the images of the asset
ImagesV2(item) ==
  IF Get(item, "thumbnail", "") # ""
    THEN <<[type |-> "main", url |-> item["thumbnail"]]>>
    ELSE <<>>

\* convert_item(item, item_type) of v2
convert_item_v2(item, item_type) ==
  IF "id" \notin DOMAIN item THEN KeyError("id")
  ELSE
    LET play_id    == PlayIdV2(item)
        duration   == DurationV2(item)
        asset_type == AssetTypeV2(item_type, duration)
        title      == Slice(OrStr(Get(item, "title", ""), "Untitled"), 200)
        short_desc == Slice(OrStr(Get(item, "shortDescription", ""), title), 200)
        long_desc  == Slice(OrStr(Get(item, "longDescription", ""), short_desc), 500)
        genres     == classify_content(title, short_desc,
                                       Get(item, "tags", <<>>), duration)
        tags       == TagsV2(Get(item, "tags", <<>>))
    IN  [id                |-> item["id"],
         type              |-> asset_type,
         titles            |-> <<[value |-> title]>>,
         shortDescriptions |-> <<[value |-> short_desc]>>,
         longDescriptions  |-> <<[value |-> long_desc]>>,
         releaseDate       |-> Get(item, "releaseDate", "2025-01-01"),
         genres            |-> genres,
         tags              |-> IF tags # <<>> THEN tags ELSE <<"faith">>,
         advisoryRatings   |-> <<[source |-> "USA_PR", value |-> "TV-G"]>>,
         images            |-> ImagesV2(item),
         durationInSeconds |-> duration,
         content           |-> [playOptions |->
                                  <<[license |-> "free", quality |-> "hd",
                                     playId |-> play_id]>>]]

(***************************************************************************)
(* The batch drivers: main() of v1 and of v2.                              *)
(***************************************************************************)
\* assets.append(convert_item(movie, "movie")) inside try/except (v1)
ConvertMovieV1 ==
  /\ variant = "v1" /\ pc = "movies" /\ idx <= Len(movies)
  /\ LET r == convert_item_v1(movies[idx], "movie")
     IN  IF IsException(r)
           THEN errors' = errors + 1 /\ UNCHANGED assets
           ELSE assets' = Append(assets, r) /\ UNCHANGED errors
  /\ idx' = idx + 1
  /\ UNCHANGED <<variant, movies, shortforms, pc, search_feed, text, max_len, result>>

\* the movies loop is exhausted: on to the short-form loop (v1)
EndMoviesV1 ==
  /\ variant = "v1" /\ pc = "movies" /\ idx > Len(movies)
  /\ pc' = "shortforms" /\ idx' = 1
  /\ UNCHANGED <<variant, movies, shortforms, assets, errors, search_feed,
                 text, max_len, result>>

\* assets.append(convert_item(sf, "shortform")) inside try/except (v1)
ConvertShortformV1 ==
  /\ variant = "v1" /\ pc = "shortforms" /\ idx <= Len(shortforms)
  /\ LET r == convert_item_v1(shortforms[idx], "shortform")
     IN  IF IsException(r)
           THEN errors' = errors + 1 /\ UNCHANGED assets
           ELSE assets' = Append(assets, r) /\ UNCHANGED errors
  /\ idx' = idx + 1
  /\ UNCHANGED <<variant, movies, shortforms, pc, search_feed, text, max_len, result>>

\* the search feed document
SearchFeed(a) ==
  [version |-> "1", defaultLanguage |-> "en",
   defaultAvailabilityCountries |-> <<"us">>, assets |-> a]

\* both loops are done: build the search feed (v1)
BuildSearchFeedV1 ==
  /\ variant = "v1" /\ pc = "shortforms" /\ idx > Len(shortforms)
  /\ search_feed' = SearchFeed(assets)
  /\ pc' = "done"
  /\ UNCHANGED <<variant, movies, shortforms, idx, assets, errors, text, max_len, result>>

\* asset = convert_item(item, "movie"); assets.append(asset) (v2: no try/except,
\* an exception leaves main() and ends the run)
ConvertMovieV2 ==
  /\ variant = "v2" /\ pc = "movies" /\ idx <= Len(movies)
  /\ LET r == convert_item_v2(movies[idx], "movie")
     IN  IF IsException(r)
           THEN pc' = "aborted" /\ UNCHANGED <<assets, idx>>
           ELSE assets' = Append(assets, r) /\ idx' = idx + 1 /\ UNCHANGED pc
  /\ UNCHANGED <<variant, movies, shortforms, errors, search_feed, text, max_len, result>>

\* the movies loop is exhausted: on to the short-form loop (v2)
EndMoviesV2 ==
  /\ variant = "v2" /\ pc = "movies" /\ idx > Len(movies)
  /\ pc' = "shortforms" /\ idx' = 1
  /\ UNCHANGED <<variant, movies, shortforms, assets, errors, search_feed,
                 text, max_len, result>>

\* asset = convert_item(item, "shortform"); assets.append(asset) (v2)
ConvertShortformV2 ==
  /\ variant = "v2" /\ pc = "shortforms" /\ idx <= Len(shortforms)
  /\ LET r == convert_item_v2(shortforms[idx], "shortform")
     IN  IF IsException(r)
           THEN pc' = "aborted" /\ UNCHANGED <<assets, idx>>
           ELSE assets' = Append(assets, r) /\ idx' = idx + 1 /\ UNCHANGED pc
  /\ UNCHANGED <<variant, movies, shortforms, errors, search_feed, text, max_len, result>>

\* both loops are done: build the search feed (v2)
BuildSearchFeedV2 ==
  /\ variant = "v2" /\ pc = "shortforms" /\ idx > Len(shortforms)
  /\ search_feed' = SearchFeed(assets)
  /\ pc' = "done"
  /\ UNCHANGED <<variant, movies, shortforms, idx, assets, errors, text, max_len, result>>

Next ==
  \/ ConvertMovieV1 \/ EndMoviesV1 \/ ConvertShortformV1 \/ BuildSearchFeedV1
  \/ ConvertMovieV2 \/ EndMoviesV2 \/ ConvertShortformV2 \/ BuildSearchFeedV2

\* a call of truncate(text, max_len) returns
Truncate ==
  /\ pc = "call"
  /\ result' = truncate(text, max_len)
  /\ pc' = "returned"
  /\ UNCHANGED <<variant, movies, shortforms, idx, assets, errors, search_feed,
                 text, max_len>>

NextTruncate == Truncate

(***************************************************************************)
(* Inputs.                                                                 *)
(***************************************************************************)
\* all sequences over S of length at most n
SeqsUpTo(S, n) == UNION {[1..k -> S] : k \in 0..n}

\* main() starts on a feed, in either variant
InitFeed(feeds) ==
  /\ variant \in {"v1", "v2"}
  /\ \E f \in feeds : movies = f.movies /\ shortforms = f.shortforms
  /\ pc = "movies" /\ idx = 1
  /\ assets = <<>> /\ errors = 0 /\ search_feed = None
  /\ text = "" /\ max_len = 0 /\ result = ""

\* feeds of one record, given as a movie or as a short-form video
SingleFeeds(items) ==
  {[movies |-> <<it>>, shortforms |-> <<>>] : it \in items}
  \cup {[movies |-> <<>>, shortforms |-> <<it>>] : it \in items}

\* records of the driver's feeds: with and without an id
DriverRecords ==
  {[id |-> "abc123", title |-> "Sunday Service"],
   [id |-> "xyz789"],
   [title |-> "Lost and Found"]}

DriverFeeds ==
  {[movies |-> m, shortforms |-> s] :
     m \in SeqsUpTo(DriverRecords, MaxMovies), s \in SeqsUpTo(DriverRecords, MaxShorts)}

Init == InitFeed(DriverFeeds)

Spec == Init /\ [][Next]_vars

\* ids of every length up to MaxIdLen: the first n characters of 0123456789 repeated
MaxIdLen == 52

IdOfLen(n) == Slice(Repeat("0123456789", (n \div 10) + 1), n)

IdentifierRecords == {[id |-> IdOfLen(n)] : n \in 0..MaxIdLen}

InitIdentifier == InitFeed(SingleFeeds(IdentifierRecords))

SpecIdentifier == InitIdentifier /\ [][Next]_vars

\* a record with the optional field, or without it
Optional(key, values) == {EmptyDict} \cup {[k \in {key} |-> v] : v \in values}

\* genres fields: absent, empty, or up to MaxGenres free-text genres
MaxGenres == 2

GenreSamples == {"Drama", "COMEDY", "science fiction", "Sci-Fi"}

TitleSamples ==
  {"Sunday Sermon", "Jazz Concert", "Holiday Parade", "Local News",
   "Neighborhood Cleanup", "Math Lesson"}

GenreRecords ==
  {[id |-> "abc123"] @@ g @@ t @@ tg :
     g  \in Optional("genres", SeqsUpTo(GenreSamples, MaxGenres)),
     t  \in Optional("title", TitleSamples),
     tg \in Optional("tags", {<<"choir">>})}

InitGenres == InitFeed(SingleFeeds(GenreRecords))

SpecGenres == InitGenres /\ [][Next]_vars

\* content fields: absent, empty, or with videos and a duration, each optional
MaxVideos == 2

VideoSamples ==
  {[url |-> "https://x/play/999", quality |-> "HD"],
   [url |-> "https://cdn/v/1.mp4", quality |-> "sd"],
   [url |-> "a/play/abc/play/22"],
   [quality |-> "4K"]}

DurationSamples ==
  {None, PyInt(0), PyInt(-5), PyInt(1), PyInt(900), PyInt(901)}

ContentSamples ==
  {v @@ d : v \in Optional("videos", SeqsUpTo(VideoSamples, MaxVideos)),
            d \in Optional("duration", DurationSamples)}

ContentRecords ==
  {[id |-> "abc123"] @@ c @@ r :
     c \in Optional("content", ContentSamples),
     r \in Optional("rating", {EmptyDict, [ratingSource |-> "MPAA", rating |-> "PG"]})}

InitContent == InitFeed(SingleFeeds(ContentRecords))

SpecContent == InitContent /\ [][Next]_vars

\* rating fields: absent, empty, or with a source and a value, each optional
RatingSourceSamples == {"USA_TV", "MPAA", "USA_PR", "BBFC"}

RatingValueSamples == {"TV-G", "TV-14", "PG-13"}

RatingSamples ==
  {s @@ v : s \in Optional("ratingSource", RatingSourceSamples),
            v \in Optional("rating", RatingValueSamples)}

RatingRecords ==
  {[id |-> "abc123"] @@ r @@ c :
     r \in Optional("rating", RatingSamples),
     c \in Optional("content", {EmptyDict, [videos |-> <<[url |-> "https://x/play/7"]>>,
                                            duration |-> PyInt(1200)]})}

InitRatings == InitFeed(SingleFeeds(RatingRecords))

SpecRatings == InitRatings /\ [][Next]_vars

\* tags fields: absent, empty, or up to MaxTags free-text tags
MaxTags == 2

TagSamples ==
  {" \"sports\" ", "", "  \"a-very-long-tag-name-exceeding-twenty\" ",
   "\"quoted\"", "plain", "   ", "\"", "exactly-twenty-chars", "\" inner \""}

TagRecords ==
  {[id |-> "abc123"] @@ t : t \in Optional("tags", SeqsUpTo(TagSamples, MaxTags))}

InitTags == InitFeed(SingleFeeds(TagRecords))

SpecTags == InitTags /\ [][Next]_vars

\* truncate is called on every text of up to MaxTextLen characters, from an
\* alphabet with the dot in it, with every limit up to MaxLimit
TextAlphabet == {"a", "b", "."}

TextSamples ==
  {Join("", s) : s \in SeqsUpTo(TextAlphabet, MaxTextLen)}

InitTruncate ==
  /\ text \in TextSamples /\ max_len \in 0..MaxLimit
  /\ pc = "call" /\ result = ""
  /\ variant = "v1" /\ movies = <<>> /\ shortforms = <<>> /\ idx = 1
  /\ assets = <<>> /\ errors = 0 /\ search_feed = None

SpecTruncate == InitTruncate /\ [][NextTruncate]_vars

\* text fields: each absent, empty, short, at its limit or beyond it
TitleTextSamples ==
  {"", "Sunday Sermon", Repeat("A", 200), Repeat("A", 201), Repeat("Ab", 125)}

ShortTextSamples == {"", "A short text", Repeat("E", 205)}

LongTextSamples == {"", "A long text", Repeat("G", 500), Repeat("H", 501)}

TextRecords ==
  {[id |-> "abc123"] @@ t @@ s @@ l :
     t \in Optional("title", TitleTextSamples),
     s \in Optional("shortDescription", ShortTextSamples),
     l \in Optional("longDescription", LongTextSamples)}

InitText == InitFeed(SingleFeeds(TextRecords))

SpecText == InitText /\ [][Next]_vars

(***************************************************************************)
(* What the properties speak about.                                        *)
(***************************************************************************)
HasId(r) == "id" \in DOMAIN r

\* the records of the feed in the order main() visits them
Source == movies \o shortforms

\* the records that convert: the k-th asset comes from the k-th of them
Converted == SelectSeq(Source, HasId)

\* the type main() declares for the k-th converted record
DeclaredType(k) ==
  IF k <= Len(SelectSeq(movies, HasId)) THEN "movie" ELSE "shortform"

\* the number of records without an id
NoIdCount == Len(Source) - Len(Converted)

(***************************************************************************)
(* C1.  Batch driver: a record without an id fails alone, is counted as    *)
(* one error and skipped; no single record's failure aborts the run; at    *)
(* the end there is one asset per record with an id, in source order       *)
(* (movies first), and errors is the number of records without an id.      *)
(* Violated by v2, whose main() has no try/except.                         *)
(***************************************************************************)
C1_BatchIsolatesFailures ==
  /\ pc # "aborted"
  /\ pc = "done" =>
       /\ Len(assets) = Len(Converted)
       /\ \A k \in 1..Len(assets) : assets[k].id = Slice(Converted[k].id, 50)
       /\ errors = NoIdCount

(***************************************************************************)
(* C2.  Every asset's id has at most 50 characters and is the first 50     *)
(* characters of the source id.  Violated by v2, which copies the id.      *)
(***************************************************************************)
C2_IdAtMost50 ==
  \A k \in 1..Len(assets) :
    /\ Len(assets[k].id) <= 50
    /\ assets[k].id = Slice(Converted[k].id, 50)

\* the genres, content, videos and tags the k-th converted record carries
SourceGenres(k) == Get(Converted[k], "genres", <<>>)

SourceContent(k) == Get(Converted[k], "content", EmptyDict)

SourceVideos(k) == Get(SourceContent(k), "videos", <<>>)

SourceTags(k) == Get(Converted[k], "tags", <<>>)

UpperLetters ==
  {"A", "B", "C", "D", "E", "F", "G", "H", "I", "J", "K", "L", "M",
   "N", "O", "P", "Q", "R", "S", "T", "U", "V", "W", "X", "Y", "Z"}

\* s has no upper-case letter
IsLowercase(s) == \A i \in 1..Len(s) : CharAt(s, i) \notin UpperLetters

\* the canonical genre set of the running variant
CanonicalGenres == IF variant = "v1" THEN VALID_GENRES ELSE VALID_GENRES_V2

\* the positions of the source genres that the canonical set recognises,
\* whatever their letter case
Recognised(k) ==
  {i \in 1..Len(SourceGenres(k)) :
     \E g \in VALID_GENRES : Len(g) = Len(SourceGenres(k)[i]) /\
        \A j \in 1..Len(g) :
           \/ CharAt(g, j) = CharAt(SourceGenres(k)[i], j)
           \/ /\ IndexIn(CharAt(g, j), LowerCase) # 0
              /\ IndexIn(CharAt(g, j), LowerCase)
                   = IndexIn(CharAt(SourceGenres(k)[i], j), UpperCase)}

\* the n-th smallest element of a set of positions
NthOf(S, n) == CHOOSE i \in S : Cardinality({j \in S : j < i}) = n - 1

(***************************************************************************)
(* C3.  Every asset's genres list is non-empty and each element is a       *)
(* lowercase member of the canonical genre set; in the filter strategy     *)
(* (v1) it is the recognised source genres, lowercased, in source order,   *)
(* or the single genre "special" when none is recognised.                  *)
(***************************************************************************)
C3_GenresCanonical ==
  \A k \in 1..Len(assets) :
    LET out == assets[k].genres
    IN  /\ out # <<>>
        /\ \A i \in 1..Len(out) : out[i] \in CanonicalGenres /\ IsLowercase(out[i])
        /\ variant = "v1" =>
             IF Recognised(k) = {} THEN out = <<"special">>
             ELSE /\ Len(out) = Cardinality(Recognised(k))
                  /\ \A n \in 1..Len(out) :
                       LET src == SourceGenres(k)[NthOf(Recognised(k), n)]
                       IN  /\ Len(out[n]) = Len(src)
                           /\ \A j \in 1..Len(src) :
                                CharAt(out[n], j) = LowerChar(CharAt(src, j))

\* a v1 asset whose two source genres were one recognised in upper case and
\* one unrecognised
C3_Witness ==
  \E k \in 1..Len(assets) :
    /\ variant = "v1"
    /\ SourceGenres(k) = <<"Sci-Fi", "COMEDY">>
    /\ assets[k].genres = <<"comedy">>

(***************************************************************************)
(* C4.  Every asset has a non-empty advisoryRatings and a non-empty        *)
(* content.playOptions, whatever of rating, content and content.videos is  *)
(* absent, empty or present.                                               *)
(***************************************************************************)
C4_RatingsAndPlayOptionsNonEmpty ==
  \A k \in 1..Len(assets) :
    /\ Len(assets[k].advisoryRatings) >= 1
    /\ Len(assets[k].content.playOptions) >= 1

\* a finished v1 run whose asset was converted from a record with an empty
\* rating and an empty videos list
C4_Witness ==
  \E k \in 1..Len(assets) :
    /\ "rating" \in DOMAIN Converted[k] /\ Converted[k].rating = EmptyDict
    /\ "videos" \in DOMAIN SourceContent(k) /\ SourceVideos(k) = <<>>
    /\ variant = "v1"
    /\ pc = "done"

(***************************************************************************)
(* C5.  Every asset's durationInSeconds is an integer >= 1: the source     *)
(* content.duration when that is a positive integer, and the variant's     *)
(* minimum default (60 in v1, 1 in v2) when the duration is absent, null,  *)
(* zero or negative.  Violated by both variants, which pass a negative     *)
(* duration through.                                                       *)
(***************************************************************************)
C5_DurationPositive ==
  \A k \in 1..Len(assets) :
    LET src == Get(SourceContent(k), "duration", None)
        out == assets[k].durationInSeconds
    IN  /\ out.type = "int" /\ out.val >= 1
        /\ IF src.type = "int" /\ src.val >= 1
             THEN out.val = src.val
             ELSE out.val = (IF variant = "v1" THEN 60 ELSE 1)

(***************************************************************************)
(* C6.  truncate(s, L), for any s and any L (also below 3): the result is  *)
(* at most L long; it is s when len(s) <= L; otherwise it ends with "..."  *)
(* and starts with the first L-3 characters of s.  Violated for L < 3.     *)
(***************************************************************************)
C6_TruncateWithinLimit ==
  pc = "returned" =>
    /\ Len(result) <= max_len
    /\ Len(text) <= max_len => result = text
    /\ Len(text) > max_len =>
         /\ Len(result) >= 3
         /\ SubSeq(result, Len(result) - 2, Len(result)) = "..."
         /\ \A i \in 1..(max_len - 3) : CharAt(result, i) = CharAt(text, i)

(***************************************************************************)
(* C7.  The asset's type is the type the caller declared, for every        *)
(* source duration; the 900-second threshold never overrides it.  Violated *)
(* by v2, which outputs a declared movie of at most 900 seconds as         *)
(* shortform.                                                              *)
(***************************************************************************)
C7_DeclaredTypeKept ==
  \A k \in 1..Len(assets) : assets[k].type = DeclaredType(k)

\* the tag with its surrounding quote characters and whitespace removed,
\* whichever is outermost
FullyStripped(t) == StripChars(t, Whitespace \cup {"\""})

RECURSIVE ExpectedTags(_)
\* the tags that are not empty once stripped, stripped and cut to 20 characters
ExpectedTags(tags) ==
  IF tags = <<>> THEN <<>>
  ELSE (IF FullyStripped(Head(tags)) = "" THEN <<>>
        ELSE <<SubSeq(FullyStripped(Head(tags)), 1,
                      Min(20, Len(FullyStripped(Head(tags)))))>>)
       \o ExpectedTags(Tail(tags))

(***************************************************************************)
(* C8.  Each output tag is the source tag with its surrounding quote       *)
(* characters and whitespace removed (whichever is outermost), cut to 20   *)
(* characters; tags empty after stripping are dropped and the order is     *)
(* kept; no output tag is longer than 20 characters.  (When no tag is      *)
(* left, the tags field may be omitted or hold a default tag.)  Violated   *)
(* by v1, which strips quotes only when they are outermost, and by v2,     *)
(* which strips nothing.                                                   *)
(***************************************************************************)
C8_TagsCleaned ==
  \A k \in 1..Len(assets) :
    LET out == Get(assets[k], "tags", <<>>)
    IN  /\ \A i \in 1..Len(out) : Len(out[i]) <= 20
        /\ IF ExpectedTags(SourceTags(k)) = <<>>
             THEN out = <<>> \/ out = <<"faith">>
             ELSE out = ExpectedTags(SourceTags(k))

\* rest is what follows some occurrence of the "/play/" marker in url
FollowsMarker(url, rest) ==
  \E i \in 1..Len(url) :
    /\ StartsWith(SubSeq(url, i, Len(url)), "/play/")
    /\ rest = SubSeq(url, i + Len("/play/"), Len(url))

(***************************************************************************)
(* C9.  A record with n >= 1 video entries yields exactly n play options,  *)
(* the i-th from the i-th video, each with license "free" and playId what  *)
(* follows the "/play/" marker of that video's URL, or the item's id when  *)
(* the URL has no marker; a record with no video entries yields exactly    *)
(* the one play option {free, hd, item id}.  Violated by v2, which emits   *)
(* one play option whatever the number of videos.                          *)
(***************************************************************************)
C9_PlayOptionPerVideo ==
  \A k \in 1..Len(assets) :
    LET videos == SourceVideos(k)
        out    == assets[k].content.playOptions
    IN  IF videos = <<>>
          THEN out = <<[license |-> "free", quality |-> "hd",
                        playId |-> Converted[k].id]>>
          ELSE /\ Len(out) = Len(videos)
               /\ \A i \in 1..Len(videos) :
                    LET url == Get(videos[i], "url", "")
                    IN  /\ out[i].license = "free"
                        /\ IF \E rest \in {out[i].playId} : FollowsMarker(url, rest)
                             THEN TRUE
                             ELSE /\ ~ \E j \in 1..Len(url) :
                                         StartsWith(SubSeq(url, j, Len(url)), "/play/")
                                  /\ out[i].playId = Converted[k].id

\* the translation table of rating sources
CanonicalRatingSource(s) ==
  IF s = "MPAA" THEN "MPAA" ELSE "USA_PR"

(***************************************************************************)
(* C10.  A record that carries a rating {ratingSource, rating} yields      *)
(* exactly one advisory rating: its source the table translation of        *)
(* ratingSource (USA_TV -> USA_PR, MPAA -> MPAA, USA_PR -> USA_PR, other   *)
(* -> USA_PR), its value the source rating unchanged; only a record with   *)
(* no rating yields the default {USA_PR, TV-G}.  Violated by v2, which     *)
(* always emits the default.                                               *)
(***************************************************************************)
C10_RatingMapped ==
  \A k \in 1..Len(assets) :
    LET rating == Get(Converted[k], "rating", EmptyDict)
        out    == assets[k].advisoryRatings
    IN  /\ {"ratingSource", "rating"} \subseteq DOMAIN rating =>
             out = <<[source |-> CanonicalRatingSource(rating.ratingSource),
                      value  |-> rating.rating]>>
        /\ "rating" \notin DOMAIN Converted[k] =>
             out = <<[source |-> "USA_PR", value |-> "TV-G"]>>

(***************************************************************************)
(* C11.  When the source title is absent or empty the asset's title is     *)
(* "Untitled"; when the source shortDescription is absent or empty the     *)
(* asset's short description is the asset's (possibly truncated) title;    *)
(* title and short description have at most 200 characters and the long    *)
(* description, when present, at most 500.  Violated by v1, which keeps    *)
(* an empty title and an empty short description as they are.              *)
(***************************************************************************)
C11_TextFallbacks ==
  \A k \in 1..Len(assets) :
    LET title_out == assets[k].titles[1].value
        short_out == assets[k].shortDescriptions[1].value
        long_outs == Get(assets[k], "longDescriptions", <<>>)
    IN  /\ Get(Converted[k], "title", "") = "" => title_out = "Untitled"
        /\ Get(Converted[k], "shortDescription", "") = "" => short_out = title_out
        /\ Len(title_out) <= 200
        /\ Len(short_out) <= 200
        /\ \A i \in 1..Len(long_outs) : Len(long_outs[i].value) <= 500

====
